---- MODULE Spec2Model ----
(***************************************************************************)
(* A model of pudl/extract/ferc1.py: the FERC Form 1 cloning pipeline      *)
(* (DBC catalog + yearly DBF files -> SQLite) and the filtered extraction  *)
(* of its tables.                                                          *)
(*                                                                         *)
(* Specifications:                                                         *)
(*   SpecParseN   FERC1FieldParser.parseN applied to a numeric field       *)
(*   SpecExtract  extract: the validation of its arguments                 *)
(*   SpecQuery    extract: the SELECT of each extraction function          *)
(*   Spec         dbf2sqlite: runs of the clone over a datastore           *)
(*   SpecBadCols  dbf2sqlite: runs of the clone with a bad_cols denylist   *)
(*   SpecStrings  get_strings applied to the bytes of a file               *)
(*   SpecCatalog  get_dbc_map: tf_dict rebuilt from the strings of a file  *)
(***************************************************************************)
EXTENDS Integers, Sequences, FiniteSets, TLC

VARIABLES
    pn_data,      \* parseN: the raw bytes of the numeric field
    pn_residual,  \* parseN: the bytes handed to dbfread's generic parseN
    pn_result,    \* parseN: what FERC1FieldParser.parseN returns
    pn_pc,        \* parseN: "input" before the call, "done" after it
    store,        \* the SQLite DB: table name -> sequence of rows
    ferc1_pudl_tables,  \* pc.ferc1_pudl_tables, the tables PUDL supports
    ex_tables,    \* extract: the ferc1_tables argument of the last call
    ex_years,     \* extract: the ferc1_years argument of the last call
    ex_outcome,   \* extract: how the last call ended: exc is "none" before
                  \*   any call, "ok" on return, else the exception raised;
                  \*   at is the raise reached; lists is what the message lists
    ex_connected, \* extract: whether the call reached connect_db/reflect
    ex_queries,   \* extract: the PUDL tables whose SELECT ran, in order
    ex_ret,       \* extract: the returned mapping table -> rows
    archive,      \* the datastore: the DBF file of every (table, year) and
                  \*   the table and field names held by the DBC catalog
    schema,       \* the SQLite DB: table name -> columns and constraints
    ld_pc,        \* dbf2sqlite: the step the run is at
    ld_tables,    \* dbf2sqlite: the tables argument
    ld_years,     \* dbf2sqlite: the years argument
    ld_i,         \* dbf2sqlite: the index in tables of the next one to load
    ld_exc,       \* dbf2sqlite: "none", or the exception that ended the run
    dbc_map,      \* dbf2sqlite: the map get_dbc_map returned
    sqlite_meta,  \* dbf2sqlite: the tables defined in the MetaData object
    bad_cols,     \* dbf2sqlite: the bad_cols argument, (table, column) pairs
    ld_runs,      \* the number of runs of dbf2sqlite started so far
    dbc_bytes,    \* get_strings: the bytes of the DBC file
    min_length,   \* get_strings: the min_length argument
    encoding,     \* get_strings: the encoding open() decodes the file with
    dbc_strings,  \* the strings read from the DBC file, in scan order
    tf_dict,      \* get_dbc_map: the reconstructed table -> field names
    dbc_pc        \* "input" before the call on the DBC file, "done" after

pnVars == <<pn_data, pn_residual, pn_result, pn_pc>>
exVars == <<ex_tables, ex_years, ex_outcome, ex_connected, ex_queries,
            ex_ret>>
ldVars == <<archive, schema, ld_pc, ld_tables, ld_years, ld_i, ld_exc,
            dbc_map, sqlite_meta, bad_cols, ld_runs>>
dbcVars == <<dbc_bytes, min_length, encoding, dbc_strings, tf_dict, dbc_pc>>
vars == <<pn_data, pn_residual, pn_result, pn_pc, store, ferc1_pudl_tables,
          ex_tables, ex_years, ex_outcome, ex_connected, ex_queries,
          ex_ret, archive, schema, ld_pc, ld_tables, ld_years, ld_i, ld_exc,
          dbc_map, sqlite_meta, bad_cols, ld_runs, dbc_bytes, min_length,
          encoding, dbc_strings, tf_dict, dbc_pc>>

(***************************************************************************)
(* Bytes and the bytes methods used by the parsers.                        *)
(***************************************************************************)
\* The longest numeric field the model decodes.
MaxFieldLen == 3

\* The bytes a field is made of: digits, the decimal point, ASCII
\* whitespace, NUL and the '*' padding character.
Byte == {"0", "1", ".", " ", "NUL", "*"}
Whitespace == {" "}
Digit == {"0", "1"}

RECURSIVE lstrip(_, _)
\* bytes.lstrip(chars): drop the leading run of bytes that are in chars.
lstrip(data, chars) ==
    IF data # <<>> /\ Head(data) \in chars THEN lstrip(Tail(data), chars)
    ELSE data

RECURSIVE rstrip(_, _)
\* bytes.rstrip(chars): drop the trailing run of bytes that are in chars.
rstrip(data, chars) ==
    IF data # <<>> /\ data[Len(data)] \in chars
    THEN rstrip(SubSeq(data, 1, Len(data) - 1), chars)
    ELSE data

\* bytes.strip(chars): both ends.
strip(data, chars) == rstrip(lstrip(data, chars), chars)

RECURSIVE DigitsValue(_)
\* The number a run of decimal digits denotes.
DigitsValue(ds) ==
    IF ds = <<>> THEN 0
    ELSE 10 * DigitsValue(SubSeq(ds, 1, Len(ds) - 1))
         + (IF ds[Len(ds)] = "1" THEN 1 ELSE 0)

RECURSIVE Pow10(_)
Pow10(n) == IF n = 0 THEN 1 ELSE 10 * Pow10(n - 1)

AllDigits(s) == \A i \in 1..Len(s) : s[i] \in Digit
Without(s, i) == SubSeq(s, 1, i - 1) \o SubSeq(s, i + 1, Len(s))

\* int(data): surrounding whitespace is ignored, what is left must be a
\* non-empty run of digits.  "ValueError" otherwise.
PyInt(data) ==
    LET s == strip(data, Whitespace)
    IN  IF s # <<>> /\ AllDigits(s)
        THEN [kind |-> "int", num |-> DigitsValue(s), scale |-> 0]
        ELSE [kind |-> "ValueError", num |-> 0, scale |-> 0]

\* float(data): surrounding whitespace is ignored, what is left must be
\* digits with at most one decimal point and at least one digit ("1.",
\* ".5" and "1.5" are floats, "." is not).  The value is num / 10^scale.
PyFloat(data) ==
    LET s == strip(data, Whitespace)
        points == {i \in 1..Len(s) : s[i] = "."}
    IN  IF s # <<>> /\ AllDigits(s)
        THEN [kind |-> "float", num |-> DigitsValue(s), scale |-> 0]
        ELSE IF Cardinality(points) = 1 /\ Len(s) > 1
                /\ AllDigits(Without(s, CHOOSE i \in points : TRUE))
        THEN LET p == CHOOSE i \in points : TRUE
             IN  [kind |-> "float", num |-> DigitsValue(Without(s, p)),
                  scale |-> Len(s) - p]
        ELSE [kind |-> "ValueError", num |-> 0, scale |-> 0]

\* dbfread.FieldParser.parseN, the generic numeric decoder the adapter
\* delegates to: strip whitespace and '*', try int, an empty field is
\* None, anything else is a float (or its ValueError).
GenericParseN(data) ==
    LET d == strip(strip(data, Whitespace), {"*"})
    IN  IF PyInt(d).kind = "int" THEN PyInt(d)
        ELSE IF strip(d, Whitespace) = <<>>
        THEN [kind |-> "None", num |-> 0, scale |-> 0]
        ELSE PyFloat(d)

\* FERC1FieldParser.parseN, lines 331-334: the bytes left after the
\* stripping and the bare-period substitution.
FercResidual(data) ==
    LET d == strip(strip(strip(data, Whitespace), {"*", "NUL"}), {"0"})
    IN  IF d = <<".">> THEN <<"0">> ELSE d

\* FERC1FieldParser.parseN: the residual, decoded by the generic decoder.
parseN(data) == GenericParseN(FercResidual(data))

(***************************************************************************)
(* The configuration extract reads from pudl.constants (pc).  The module  *)
(* pudl/constants.py is outside the sources modelled here: the values are *)
(* small stand-ins with the structure the code relies on.                 *)
(***************************************************************************)
\* pc.data_years['ferc1']: the years FERC publishes.
DataYears == 2005..2007
\* pc.working_years['ferc1']: the years integrated into PUDL.
WorkingYears == 2006..2007
\* The years a caller may ask for: the data years and one before them.
RequestYears == 2004..2007
\* pc.missing_respondents_ferc1: respondent ids absent from the registry.
missing_respondents_ferc1 == {514}

\* The keys of ferc1_extract_functions, lines 530-538.
ferc1_extract_functions ==
    {"fuel_ferc1", "plants_steam_ferc1", "plants_small_ferc1",
     "plants_hydro_ferc1", "plants_pumped_storage_ferc1",
     "plant_in_service_ferc1", "purchased_power_ferc1",
     "accumulated_depreciation_ferc1"}

\* A table pc.ferc1_pudl_tables may list although it has no extraction
\* function (the case lines 542-546 exist for), and a table nobody knows.
UnregisteredTable == "plants_other_ferc1"
UnknownTable == "bogus_ferc1"
RequestTables == ferc1_extract_functions \cup {UnregisteredTable, UnknownTable}

\* pc.table_map_ferc1_pudl: PUDL table -> FERC Form 1 table of the store.
table_map_ferc1_pudl(pudl_table) ==
    CASE pudl_table = "fuel_ferc1" -> "f1_fuel"
      [] pudl_table = "plants_steam_ferc1" -> "f1_steam"
      [] pudl_table = "plants_small_ferc1" -> "f1_small"
      [] pudl_table = "plants_hydro_ferc1" -> "f1_hydro"
      [] pudl_table = "plants_pumped_storage_ferc1" -> "f1_pumped_storage"
      [] pudl_table = "plant_in_service_ferc1" -> "f1_plant_in_srvce"
      [] pudl_table = "purchased_power_ferc1" -> "f1_purchased_pwr"
      [] pudl_table = "accumulated_depreciation_ferc1" -> "f1_accumdepr_prvsn"

\* The first report year plant_in_service keeps (line 718).
PlantInServiceFirstYear == 2007

(***************************************************************************)
(* SQL over the store.  A nullable numeric column holds <<>> for NULL and *)
(* <<n>> for the number n; a comparison with NULL is unknown, and WHERE   *)
(* keeps a row only when its condition is true.                           *)
(***************************************************************************)
NULL == <<>>
SqlGt(v, n) == v # NULL /\ v[1] > n
SqlGe(v, n) == v # NULL /\ v[1] >= n
SqlNe(v, n) == v # NULL /\ v[1] # n
SqlIn(v, S) == v # NULL /\ v[1] \in S
SqlNotIn(v, S) == v # NULL /\ v[1] \notin S

\* The items of a Python iterable given as a sequence.
Items(seq) == {seq[i] : i \in 1..Len(seq)}

\* fuel() without the plant_name condition.
fuelAnyPlantName(rows, ferc1_years) ==
    SelectSeq(rows, LAMBDA r :
        /\ r.fuel # ""
        /\ SqlGt(r.fuel_quantity, 0)
        /\ SqlIn(r.report_year, Items(ferc1_years))
        /\ SqlNotIn(r.respondent_id, missing_respondents_ferc1))

\* fuel(), lines 574-583.
fuel(rows, ferc1_years) ==
    SelectSeq(rows, LAMBDA r :
        /\ r.fuel # ""
        /\ SqlGt(r.fuel_quantity, 0)
        /\ r.plant_name # ""
        /\ SqlIn(r.report_year, Items(ferc1_years))
        /\ SqlNotIn(r.respondent_id, missing_respondents_ferc1))

\* plants_steam(), lines 599-608.
plants_steam(rows, ferc1_years) ==
    SelectSeq(rows, LAMBDA r :
        /\ SqlGt(r.tot_capacity, 0)
        /\ r.plant_name # ""
        /\ SqlIn(r.report_year, Items(ferc1_years))
        /\ SqlNotIn(r.respondent_id, missing_respondents_ferc1))

\* plants_small() with the fuel_cost condition left out of the or_().
plants_smallEightColumns(rows, ferc1_years) ==
    SelectSeq(rows, LAMBDA r :
        /\ SqlIn(r.report_year, Items(ferc1_years))
        /\ r.plant_name # ""
        /\ SqlNotIn(r.respondent_id, missing_respondents_ferc1)
        /\ \/ SqlNe(r.capacity_rating, 0)
           \/ SqlNe(r.net_demand, 0)
           \/ SqlNe(r.net_generation, 0)
           \/ SqlNe(r.plant_cost, 0)
           \/ SqlNe(r.plant_cost_mw, 0)
           \/ SqlNe(r.operation, 0)
           \/ SqlNe(r.expns_fuel, 0)
           \/ SqlNe(r.expns_maint, 0))

\* plants_small(), lines 627-644.
plants_small(rows, ferc1_years) ==
    SelectSeq(rows, LAMBDA r :
        /\ SqlIn(r.report_year, Items(ferc1_years))
        /\ r.plant_name # ""
        /\ SqlNotIn(r.respondent_id, missing_respondents_ferc1)
        /\ \/ SqlNe(r.capacity_rating, 0)
           \/ SqlNe(r.net_demand, 0)
           \/ SqlNe(r.net_generation, 0)
           \/ SqlNe(r.plant_cost, 0)
           \/ SqlNe(r.plant_cost_mw, 0)
           \/ SqlNe(r.operation, 0)
           \/ SqlNe(r.expns_fuel, 0)
           \/ SqlNe(r.expns_maint, 0)
           \/ SqlNe(r.fuel_cost, 0))

\* plants_hydro(), lines 660-669.
plants_hydro(rows, ferc1_years) ==
    SelectSeq(rows, LAMBDA r :
        /\ r.plant_name # ""
        /\ SqlIn(r.report_year, Items(ferc1_years))
        /\ SqlNotIn(r.respondent_id, missing_respondents_ferc1))

\* plants_pumped_storage(), lines 685-697.
plants_pumped_storage(rows, ferc1_years) ==
    SelectSeq(rows, LAMBDA r :
        /\ r.plant_name # ""
        /\ SqlIn(r.report_year, Items(ferc1_years))
        /\ SqlNotIn(r.respondent_id, missing_respondents_ferc1))

\* plant_in_service(), lines 713-723.
plant_in_service(rows, ferc1_years) ==
    SelectSeq(rows, LAMBDA r :
        /\ SqlIn(r.report_year, Items(ferc1_years))
        /\ SqlGe(r.report_year, PlantInServiceFirstYear)
        /\ SqlNotIn(r.respondent_id, missing_respondents_ferc1))

\* purchased_power(), lines 739-747.
purchased_power(rows, ferc1_years) ==
    SelectSeq(rows, LAMBDA r :
        /\ SqlIn(r.report_year, Items(ferc1_years))
        /\ SqlNotIn(r.respondent_id, missing_respondents_ferc1))

\* accumulated_depreciation() without the respondent condition.
accumulated_depreciationAnyRespondent(rows, ferc1_years) ==
    SelectSeq(rows, LAMBDA r : SqlIn(r.report_year, Items(ferc1_years)))

\* accumulated_depreciation(), lines 763-771.
accumulated_depreciation(rows, ferc1_years) ==
    SelectSeq(rows, LAMBDA r :
        /\ SqlIn(r.report_year, Items(ferc1_years))
        /\ SqlNotIn(r.respondent_id, missing_respondents_ferc1))

\* ferc1_extract_functions[pudl_table](ferc1_meta, ferc1_sqlite_table,
\* ferc1_years), lines 551-552.
ExtractFunction(pudl_table, rows, ferc1_years) ==
    CASE pudl_table = "fuel_ferc1" -> fuel(rows, ferc1_years)
      [] pudl_table = "plants_steam_ferc1" -> plants_steam(rows, ferc1_years)
      [] pudl_table = "plants_small_ferc1" -> plants_small(rows, ferc1_years)
      [] pudl_table = "plants_hydro_ferc1" -> plants_hydro(rows, ferc1_years)
      [] pudl_table = "plants_pumped_storage_ferc1" ->
            plants_pumped_storage(rows, ferc1_years)
      [] pudl_table = "plant_in_service_ferc1" ->
            plant_in_service(rows, ferc1_years)
      [] pudl_table = "purchased_power_ferc1" ->
            purchased_power(rows, ferc1_years)
      [] pudl_table = "accumulated_depreciation_ferc1" ->
            accumulated_depreciation(rows, ferc1_years)

(***************************************************************************)
(* extract(), lines 458-554.                                               *)
(***************************************************************************)
\* How a call ends: by returning (exc = "ok") or by raising exc at a raise
\* statement, with a message that lists one of the configured sets.
Outcome(exc, at, lists) == [exc |-> exc, at |-> at, lists |-> lists]
Returned == Outcome("ok", "return", "none")
NotCalled == Outcome("none", "none", "none")

\* The type of the items of pc.data_years['ferc1'] and
\* pc.working_years['ferc1']: years are ints (the docstring at line 467,
\* the comparison with 2007 at line 718, max() at line 379); table names
\* are strs.
YearItemType == "int"
TableItemType == "str"

\* ' '.join(items) inside the messages at lines 496, 506 and 517:
\* str.join accepts only str items and raises TypeError on any other.
JoinRaises(items, itemType) == items # {} /\ itemType # "str"

\* raise ValueError(f"... {' '.join(items)}"): the message is built before
\* the ValueError is, so a failing join is what the call raises.
RaiseValueErrorListing(at, lists, items, itemType) ==
    IF JoinRaises(items, itemType)
    THEN Outcome("TypeError", at, "none")
    ELSE Outcome("ValueError", at, lists)

RECURSIVE CheckYears(_)
\* The loop of lines 491-507: the first year, in the order given, that
\* fails one of the two checks decides the exception.
CheckYears(ferc1_years) ==
    IF ferc1_years = <<>> THEN Returned
    ELSE IF Head(ferc1_years) \notin DataYears
    THEN RaiseValueErrorListing("year_unavailable", "data_years",
                                DataYears, YearItemType)
    ELSE IF Head(ferc1_years) \notin WorkingYears
    THEN RaiseValueErrorListing("year_not_integrated", "working_years",
                                WorkingYears, YearItemType)
    ELSE CheckYears(Tail(ferc1_years))

\* CheckTables with the loop left after its first table.
CheckTablesFirstOnly(ferc1_tables, pudl_tables) ==
    IF ferc1_tables = <<>> \/ Head(ferc1_tables) \in pudl_tables
    THEN Returned
    ELSE RaiseValueErrorListing("table_unsupported", "pudl_tables",
                                pudl_tables, TableItemType)

RECURSIVE CheckTables(_, _)
\* The loop of lines 508-518.
CheckTables(ferc1_tables, pudl_tables) ==
    IF ferc1_tables = <<>> THEN Returned
    ELSE IF Head(ferc1_tables) \notin pudl_tables
    THEN RaiseValueErrorListing("table_unsupported", "pudl_tables",
                                pudl_tables, TableItemType)
    ELSE CheckTables(Tail(ferc1_tables), pudl_tables)

\* What a call of extract leaves behind.
ExtractResult(outcome, connected, queries, ret) ==
    [outcome |-> outcome, connected |-> connected, queries |-> queries,
     ret |-> ret]

RECURSIVE ExtractLoop(_, _, _, _, _)
\* The loop of lines 541-552: each table is checked for an extraction
\* function when its turn comes, then read from the store.
ExtractLoop(ferc1_tables, ferc1_years, db, queries, ret) ==
    IF ferc1_tables = <<>> THEN ExtractResult(Returned, TRUE, queries, ret)
    ELSE LET pudl_table == Head(ferc1_tables) IN
         IF pudl_table \notin ferc1_extract_functions
         THEN ExtractResult(
                  Outcome("ValueError", "no_extract_function", "none"),
                  TRUE, queries, <<>>)
         ELSE IF table_map_ferc1_pudl(pudl_table) \notin DOMAIN db
         \* ferc1_meta.tables[ferc1_table], e.g. line 571
         THEN ExtractResult(Outcome("KeyError", "table_missing", "none"),
                            TRUE, queries, <<>>)
         ELSE ExtractLoop(
                  Tail(ferc1_tables), ferc1_years, db,
                  Append(queries, pudl_table),
                  (pudl_table :> ExtractFunction(
                       pudl_table, db[table_map_ferc1_pudl(pudl_table)],
                       ferc1_years)) @@ ret)

\* EmptyRequest with "and" for "or".
EmptyRequestBoth(ferc1_tables, ferc1_years) ==
    ferc1_tables = <<>> /\ ferc1_years = <<>>

\* The guard of line 488.
EmptyRequest(ferc1_tables, ferc1_years) ==
    ferc1_tables = <<>> \/ ferc1_years = <<>>

\* extract(ferc1_tables, ferc1_years) against the store db.
extract(ferc1_tables, ferc1_years, db, pudl_tables) ==
    IF EmptyRequest(ferc1_tables, ferc1_years)
    THEN ExtractResult(Returned, FALSE, <<>>, <<>>)
    ELSE IF CheckYears(ferc1_years) # Returned
    THEN ExtractResult(CheckYears(ferc1_years), FALSE, <<>>, <<>>)
    ELSE IF CheckTables(ferc1_tables, pudl_tables) # Returned
    THEN ExtractResult(CheckTables(ferc1_tables, pudl_tables), FALSE,
                       <<>>, <<>>)
    ELSE IF DOMAIN db = {}   \* lines 525-528
    THEN ExtractResult(Outcome("AssertionError", "no_tables", "none"),
                       TRUE, <<>>, <<>>)
    ELSE ExtractLoop(ferc1_tables, ferc1_years, db, <<>>, <<>>)

\* One call of extract, from its entry to its return or raise.
Extract(ferc1_tables, ferc1_years) ==
    LET r == extract(ferc1_tables, ferc1_years, store, ferc1_pudl_tables)
    IN  /\ ex_outcome = NotCalled
        /\ ex_tables' = ferc1_tables
        /\ ex_years' = ferc1_years
        /\ ex_outcome' = r.outcome
        /\ ex_connected' = r.connected
        /\ ex_queries' = r.queries
        /\ ex_ret' = r.ret
        /\ UNCHANGED <<store, ferc1_pudl_tables, pnVars, ldVars, dbcVars>>

(***************************************************************************)
(* The rows the store may hold, per FERC Form 1 table.                     *)
(***************************************************************************)
\* The longest request (tables, years) a caller makes.
MaxReq == 2
\* The most rows the extracted table of the store holds.
MaxStoreRows == 1

RespIds == {<<1>>, <<514>>, NULL}
RowYears == {<<2006>>, <<2007>>}
PlantNames == {"", "Plant A"}
Amounts == {NULL, <<0>>, <<5>>}

FuelRows ==
    [respondent_id : RespIds, report_year : RowYears, fuel : {"", "coal"},
     fuel_quantity : Amounts, plant_name : PlantNames]
SteamRows ==
    [respondent_id : RespIds, report_year : RowYears,
     tot_capacity : Amounts, plant_name : PlantNames]
NamedPlantRows ==
    [respondent_id : RespIds, report_year : RowYears,
     plant_name : PlantNames]
YearRows == [respondent_id : RespIds, report_year : RowYears]

SmallColumns ==
    {"capacity_rating", "net_demand", "net_generation", "plant_cost",
     "plant_cost_mw", "operation", "expns_fuel", "expns_maint", "fuel_cost"}
\* The nine amounts of a small-plant row: all 0, or all 0 but one column
\* that is 5 or NULL.
SmallAmounts ==
    {[c \in SmallColumns |-> <<0>>]}
    \cup {[c \in SmallColumns |-> IF c = d THEN v ELSE <<0>>] :
             d \in SmallColumns, v \in {<<5>>, NULL}}
GoodPlantKey ==
    [respondent_id |-> <<1>>, report_year |-> <<2007>>,
     plant_name |-> "Plant A"]
\* Small-plant rows: every amounts vector under a good key, and every key
\* with a non-zero capacity rating.
SmallRows ==
    {a @@ GoodPlantKey : a \in SmallAmounts}
    \cup {[c \in SmallColumns |->
               IF c = "capacity_rating" THEN <<5>> ELSE <<0>>] @@ k :
             k \in NamedPlantRows}

Ferc1Tables ==
    {"f1_fuel", "f1_steam", "f1_small", "f1_hydro", "f1_pumped_storage",
     "f1_plant_in_srvce", "f1_purchased_pwr", "f1_accumdepr_prvsn"}

RowsOf(ferc1_table) ==
    CASE ferc1_table = "f1_fuel" -> FuelRows
      [] ferc1_table = "f1_steam" -> SteamRows
      [] ferc1_table = "f1_small" -> SmallRows
      [] ferc1_table \in {"f1_hydro", "f1_pumped_storage"} -> NamedPlantRows
      [] OTHER -> YearRows

RECURSIVE SeqsUpTo(_, _)
\* The sequences of at most n items of S.
SeqsUpTo(S, n) ==
    IF n = 0 THEN {<<>>}
    ELSE LET shorter == SeqsUpTo(S, n - 1)
         IN  shorter \cup {Append(q, x) : q \in {t \in shorter : Len(t) = n - 1},
                                         x \in S}

\* A request names each item once.
NoDup(q) == \A i, j \in 1..Len(q) : i # j => q[i] # q[j]
Requests(S, n) == {q \in SeqsUpTo(S, n) : NoDup(q)}

\* An initialised store whose tables are all empty.
EmptyTables == [t \in Ferc1Tables |-> <<>>]

ExtractIdle ==
    /\ ex_tables = <<>>
    /\ ex_years = <<>>
    /\ ex_outcome = NotCalled
    /\ ex_connected = FALSE
    /\ ex_queries = <<>>
    /\ ex_ret = <<>>

(***************************************************************************)
(* The datastore: the DBF files and the DBC catalog.                       *)
(***************************************************************************)
\* The keys of pc.ferc1_tbl2dbf, in the order the dict holds them.
ferc1_tbl2dbf == <<"f1_respondent_id", "f1_fuel">>
RegistryTable == "f1_respondent_id"

\* The years the datastore may hold files for, and the reference year
\* (max(pc.working_years['ferc1']), line 379).
ArchiveYears == WorkingYears
refyear == CHOOSE y \in WorkingYears : \A z \in WorkingYears : z <= y

\* The field names of a table's DBF files (at most 10 characters, as the
\* DBF format stores them) and the names the catalog holds for them.
PhysicalFields(table) ==
    IF table = RegistryTable
    THEN <<"RESPONDENT", "RESPONDEN2">>
    ELSE <<"RESPONDENT", "REPORT_YEA", "FUEL", "FUEL_QUANT", "PLANT_NAME",
           "_NullFlags">>
CatalogFields(table) ==
    IF table = RegistryTable
    THEN <<"respondent_id", "respondent_name">>
    ELSE <<"respondent_id", "report_year", "fuel", "fuel_quantity",
           "plant_name">>

\* str.lower() of the field names above.
Lower(name) ==
    CASE name = "RESPONDENT" -> "respondent"
      [] name = "RESPONDEN2" -> "responden2"
      [] name = "REPORT_YEA" -> "report_yea"
      [] name = "FUEL" -> "fuel"
      [] name = "FUEL_QUANT" -> "fuel_quant"
      [] name = "PLANT_NAME" -> "plant_name"
      [] name = "Respondent_id" -> "respondent_id"
      [] OTHER -> name

\* name[:8] of the names above.
First8(name) ==
    CASE name \in {"respondent", "responden2", "respondent_id",
                   "respondent_name"} -> "responde"
      [] name \in {"report_yea", "report_year"} -> "report_y"
      [] name \in {"fuel_quant", "fuel_quantity"} -> "fuel_qua"
      [] name = "plant_name" -> "plant_na"
      [] name = "RESPONDENT" -> "RESPONDE"
      [] name = "RESPONDEN2" -> "RESPONDE"
      [] name = "REPORT_YEA" -> "REPORT_Y"
      [] name = "FUEL_QUANT" -> "FUEL_QUA"
      [] name = "PLANT_NAME" -> "PLANT_NA"
      [] name = "Respondent_id" -> "Responde"
      [] OTHER -> name

\* A DBF file of the datastore, or its absence.
DbfFile(fields, rows) == [exists |-> TRUE, fields |-> fields, rows |-> rows]
NoFile == [exists |-> FALSE, fields |-> <<>>, rows |-> <<>>]

\* The most records a DBF file holds.
MaxFileRows == 1

\* The records of the registry file, as dbfread decodes them.
RegistryRecords ==
    [RESPONDENT : {<<1>>, <<2>>}, RESPONDEN2 : {"A", "B"}]
\* The records of the fuel file of a year.
FuelRecords(year) ==
    {[f \in Items(PhysicalFields("f1_fuel")) |->
         CASE f = "RESPONDENT" -> id
           [] f = "REPORT_YEA" -> <<year>>
           [] f = "FUEL" -> "coal"
           [] f = "FUEL_QUANT" -> <<5>>
           [] f = "PLANT_NAME" -> "Plant A"
           [] OTHER -> ""] : id \in {<<1>>, <<2>>}}

RegistryFiles ==
    {NoFile} \cup {DbfFile(PhysicalFields(RegistryTable), rows) :
                      rows \in SeqsUpTo(RegistryRecords, MaxFileRows)}
FuelFiles(year) ==
    {NoFile} \cup {DbfFile(PhysicalFields("f1_fuel"), rows) :
                      rows \in SeqsUpTo(FuelRecords(year), MaxFileRows)}

\* The catalog as lines 191-229 reconstruct it: table -> field names.
GoodCatalog == [t \in Items(ferc1_tbl2dbf) |-> CatalogFields(t)]
Catalogs ==
    {GoodCatalog,
     \* a field of f1_fuel lost, or a stray one gained
     [GoodCatalog EXCEPT !["f1_fuel"] =
         SubSeq(@, 1, Len(@) - 1)],
     [GoodCatalog EXCEPT !["f1_fuel"] = Append(@, "fuel_unit")],
     \* two fields of f1_fuel in the wrong order
     [GoodCatalog EXCEPT !["f1_fuel"] =
         <<"report_year", "respondent_id", "fuel", "fuel_quantity",
           "plant_name">>],
     \* a field of f1_fuel named with a capital letter
     [GoodCatalog EXCEPT !["f1_fuel"] =
         <<"Respondent_id", "report_year", "fuel", "fuel_quantity",
           "plant_name">>],
     \* no entry for f1_fuel at all
     [t \in {RegistryTable} |-> CatalogFields(t)]}

\* A datastore in which one respondent reports in both years.
BaseRegistry ==
    [y \in ArchiveYears |->
        DbfFile(PhysicalFields(RegistryTable),
                <<[RESPONDENT |-> <<1>>,
                   RESPONDEN2 |-> IF y = refyear THEN "B" ELSE "A"]>>)]
BaseFuel ==
    [y \in ArchiveYears |->
        DbfFile(PhysicalFields("f1_fuel"),
                <<CHOOSE r \in FuelRecords(y) : r["RESPONDENT"] = <<1>> >>)]

Archive(registry, fuelfiles, catalog) ==
    [dbf |-> [t \in Items(ferc1_tbl2dbf) |->
                 IF t = RegistryTable THEN registry ELSE fuelfiles],
     tf_dict |-> catalog]

\* The datastores of the model: the base one with its registry files, its
\* fuel files or its catalog replaced.
Archives ==
    {Archive(r, BaseFuel, GoodCatalog) :
        r \in [ArchiveYears -> RegistryFiles]}
    \cup {Archive(BaseRegistry, f, GoodCatalog) :
             f \in {g \in [ArchiveYears -> UNION {FuelFiles(y) : y \in ArchiveYears}] :
                       \A y \in ArchiveYears : g[y] \in FuelFiles(y)}}
    \cup {Archive(BaseRegistry, BaseFuel, c) : c \in Catalogs}

(***************************************************************************)
(* Cloning the datastore into SQLite: lines 51-450.                        *)
(***************************************************************************)
\* What a step of the run yields: an exception or a value.
Raised(exc) == [exc |-> exc, val |-> <<>>]
Value(val) == [exc |-> "none", val |-> val]

\* drop_tables() leaving every table where it is.
drop_tablesNothing(db) == db

\* drop_tables() deleting the rows and leaving the tables.
drop_tablesRowsOnly(db) == [t \in DOMAIN db |-> <<>>]

\* drop_tables(), lines 51-58: reflect the DB and drop every table.
drop_tables(db) == <<>>

Min(a, b) == IF a <= b THEN a ELSE b

\* {k: v for k, v in zip(dbf_fields, names)}, line 238.
ZipDict(dbf_fields, names) ==
    LET n == Min(Len(dbf_fields), Len(names))
    IN  [k \in {dbf_fields[i] : i \in 1..n} |->
            names[CHOOSE i \in 1..n :
                     /\ dbf_fields[i] = k
                     /\ \A j \in (i + 1)..n : dbf_fields[j] # k]]

\* [f for f in dbf_fields if f != '_NullFlags'], line 236.
WithoutNullFlags(fields) == SelectSeq(fields, LAMBDA f : f # "_NullFlags")

\* The assertion of line 239 with the lengths compared by >=.
FieldCountsAgreeAtLeast(names, dbf_fields) == Len(names) >= Len(dbf_fields)

\* The assertion of line 239.
FieldCountsAgree(names, dbf_fields) == Len(names) = Len(dbf_fields)

\* The check of line 244 left out.
PrefixesAgreeUnchecked(sn, ln) == TRUE

\* The assertion of line 244 for one (short name, long name) pair.
PrefixesAgree(sn, ln) == First8(ln) = First8(Lower(sn))

RECURSIVE DbcMapLoop(_, _, _, _)
\* The loop of lines 232-239 over the known tables, then the check of
\* lines 242-244 of every pair of the map.
DbcMapLoop(tables, arch, year, acc) ==
    IF tables = <<>>
    THEN IF \A k \in DOMAIN acc : \A sn \in DOMAIN acc[k] :
                PrefixesAgree(sn, acc[k][sn])
         THEN Value(acc)
         ELSE Raised("AssertionError")
    ELSE LET table == Head(tables)
             f == arch.dbf[table][year]
         IN  IF ~f.exists
             THEN DbcMapLoop(Tail(tables), arch, year, acc)
             ELSE IF table \notin DOMAIN arch.tf_dict
             THEN Raised("KeyError")
             ELSE IF ~FieldCountsAgree(arch.tf_dict[table],
                                       WithoutNullFlags(f.fields))
             THEN Raised("AssertionError")
             ELSE DbcMapLoop(
                      Tail(tables), arch, year,
                      (table :> ZipDict(WithoutNullFlags(f.fields),
                                        arch.tf_dict[table])) @@ acc)

\* get_dbc_map(year, data_dir), lines 159-246, from the reconstructed
\* catalog on.
get_dbc_map(arch, year) == DbcMapLoop(ferc1_tbl2dbf, arch, year, <<>>)

\* add_sqlite_table() with the foreign key given to every table that has
\* the respondent_id column.
add_sqlite_tableSelfReference(table_name, map, arch, year, bad) ==
    LET f == arch.dbf[table_name][year]
        named == [i \in 1..Len(WithoutNullFlags(f.fields)) |->
                     map[table_name][WithoutNullFlags(f.fields)[i]]]
        columns == SelectSeq(named,
                             LAMBDA c : <<table_name, c>> \notin bad)
    IN  [columns |-> columns,
         primary_key |-> IF table_name = RegistryTable
                         THEN {"respondent_id"} ELSE {},
         on_conflict |-> IF table_name = RegistryTable
                         THEN "REPLACE" ELSE "ABORT",
         foreign_key |-> "respondent_id" \in Items(columns)]

\* add_sqlite_table(), lines 61-108: the table it defines.
add_sqlite_table(table_name, map, arch, year, bad) ==
    LET f == arch.dbf[table_name][year]
        named == [i \in 1..Len(WithoutNullFlags(f.fields)) |->
                     map[table_name][WithoutNullFlags(f.fields)[i]]]
        columns == SelectSeq(named,
                             LAMBDA c : <<table_name, c>> \notin bad)
    IN  [columns |-> columns,
         primary_key |-> IF table_name = RegistryTable
                         THEN {"respondent_id"} ELSE {},
         on_conflict |-> IF table_name = RegistryTable
                         THEN "REPLACE" ELSE "ABORT",
         foreign_key |-> /\ "respondent_id" \in Items(columns)
                         /\ table_name # RegistryTable]

RECURSIVE DefineLoop(_, _, _, _, _, _)
\* The loop of lines 280-284; dbfread.DBF raises when the reference year
\* has no file for the table (line 78).
DefineLoop(tables, map, arch, year, bad, meta) ==
    IF tables = <<>> THEN Value(meta)
    ELSE IF ~arch.dbf[Head(tables)][year].exists
    THEN Raised("DBFNotFound")
    ELSE IF \E c \in add_sqlite_table(Head(tables), map, arch, year,
                                       bad).primary_key :
                c \notin Items(add_sqlite_table(Head(tables), map, arch,
                                                year, bad).columns)
    THEN Raised("NoSuchColumn")  \* PrimaryKeyConstraint, lines 95-100
    ELSE DefineLoop(Tail(tables), map, arch, year, bad,
                    (Head(tables) :>
                         add_sqlite_table(Head(tables), map, arch, year,
                                          bad)) @@ meta)

\* create_all() creating no table.
create_allNothing(db, meta) == db

\* sqlite_meta.create_all(), line 286: the tables the DB lacks are
\* created empty, those it has are left as they are.
create_all(db, meta) ==
    [t \in DOMAIN db \cup DOMAIN meta |->
        IF t \in DOMAIN db THEN db[t] ELSE <<>>]

\* DataFrame.rename(dbc_map[table], axis=1) after
\* drop('_NullFlags', axis=1), lines 372-373, of one record.
RenameRecord(rec, colmap) ==
    LET kept == DOMAIN rec \ {"_NullFlags"}
        new(k) == IF k \in DOMAIN colmap THEN colmap[k] ELSE k
    IN  [c \in {new(k) : k \in kept} |->
            rec[CHOOSE k \in kept : new(k) = c]]

RECURSIVE ConcatYears(_, _, _)
\* The loop of lines 357-367 and pd.concat: the records of the years that
\* have a file, in the order of years.
ConcatYears(table, arch, years) ==
    IF years = <<>> THEN <<>>
    ELSE (IF Head(years) \in DOMAIN arch.dbf[table]
             /\ arch.dbf[table][Head(years)].exists
          THEN arch.dbf[table][Head(years)].rows ELSE <<>>)
         \o ConcatYears(table, arch, Tail(years))

\* get_raw_df(), lines 338-374: None when no year has a file.
get_raw_df(table, map, arch, years) ==
    IF \A i \in 1..Len(years) :
           ~(years[i] \in DOMAIN arch.dbf[table]
             /\ arch.dbf[table][years[i]].exists)
    THEN Value([none |-> TRUE, rows |-> <<>>])
    ELSE IF table \notin DOMAIN map
    THEN Raised("KeyError")
    ELSE Value([none |-> FALSE,
                rows |-> [i \in 1..Len(ConcatYears(table, arch, years)) |->
                             RenameRecord(ConcatYears(table, arch, years)[i],
                                          map[table])]])

\* drop_duplicates(subset='respondent_id', keep='last'), lines 433-434.
drop_duplicates(rows) ==
    LET keep == {i \in 1..Len(rows) :
                    \A j \in (i + 1)..Len(rows) :
                        rows[j].respondent_id # rows[i].respondent_id}
        RECURSIVE Pick(_)
        Pick(i) == IF i > Len(rows) THEN <<>>
                   ELSE (IF i \in keep THEN <<rows[i]>> ELSE <<>>)
                        \o Pick(i + 1)
    IN  Pick(1)

RECURSIVE InsertRows(_, _, _)
\* INSERT of the rows, in order, into a table: with the REPLACE primary
\* key a row takes the place of the stored rows with its respondent_id.
\* The foreign key of the table is not looked at: connect_db (lines 21-43)
\* never turns on SQLite's foreign_keys pragma.
InsertRows(stored, rows, tabledef) ==
    IF rows = <<>> THEN stored
    ELSE InsertRows(
             IF tabledef.primary_key # {} /\ tabledef.on_conflict = "REPLACE"
             THEN SelectSeq(stored,
                            LAMBDA r : r.respondent_id # Head(rows).respondent_id)
                  \o <<Head(rows)>>
             ELSE Append(stored, Head(rows)),
             Tail(rows), tabledef)

\* new_df.to_sql(table, if_exists='append'), lines 448-450: every column
\* of the frame must be a column of the table.
to_sql(db, dbschema, table, rows) ==
    IF \E i \in 1..Len(rows) :
           ~(DOMAIN rows[i] \subseteq Items(dbschema[table].columns))
    THEN Raised("OperationalError")
    ELSE Value([db EXCEPT ![table] = InsertRows(@, rows, dbschema[table])])

\* One pass of the loop of lines 426-450, for one table.
LoadTable(db, dbschema, map, arch, table, years) ==
    LET df == get_raw_df(table, map, arch, years) IN
    IF df.exc # "none" THEN Raised(df.exc)
    ELSE IF table = RegistryTable /\ df.val.none
    THEN Raised("AttributeError")   \* None.drop_duplicates, line 433
    ELSE IF df.val.none
    THEN Raised("TypeError")        \* len(None), line 435
    ELSE LET new_df == IF table = RegistryTable
                       THEN drop_duplicates(df.val.rows)
                       ELSE df.val.rows
         IN  IF Len(new_df) <= 0 THEN Value(db)
             ELSE to_sql(db, dbschema, table, new_df)

\* The default of dbf2sqlite's bad_cols argument, and the denylists of the
\* model: a data column or the respondent_id of either table.
NoBadCols == {}
BadColsChoices ==
    {NoBadCols,
     {<<"f1_fuel", "fuel_quantity">>},
     {<<"f1_fuel", "respondent_id">>},
     {<<"f1_respondent_id", "respondent_name">>},
     {<<"f1_respondent_id", "respondent_id">>}}

\* The most runs of dbf2sqlite in a row.
MaxRuns == 2

LoadIdle ==
    /\ archive = Archive(BaseRegistry, BaseFuel, GoodCatalog)
    /\ schema = <<>>
    /\ ld_pc = "idle"
    /\ ld_tables = <<>>
    /\ ld_years = <<>>
    /\ ld_i = 0
    /\ ld_exc = "none"
    /\ dbc_map = <<>>
    /\ sqlite_meta = <<>>
    /\ bad_cols = NoBadCols
    /\ ld_runs = 0

\* A store left by the clone of another datastore: a registry of another
\* vintage, fuel records, and a table this datastore does not have.
StaleTableDef(columns, registry) ==
    [columns |-> columns,
     primary_key |-> IF registry THEN {"respondent_id"} ELSE {},
     on_conflict |-> IF registry THEN "REPLACE" ELSE "ABORT",
     foreign_key |-> ~registry]
StaleStore ==
    [t \in {"f1_respondent_id", "f1_fuel", "f1_steam"} |->
        CASE t = "f1_respondent_id" ->
                 <<[respondent_id |-> <<1>>, respondent_name |-> "Old"],
                   [respondent_id |-> <<7>>, respondent_name |-> "Gone"]>>
          [] t = "f1_fuel" ->
                 <<[respondent_id |-> <<7>>, report_year |-> <<2006>>,
                    fuel |-> "gas", fuel_quantity |-> <<5>>,
                    plant_name |-> "Plant Z"]>>
          [] OTHER -> <<>>]
StaleSchema ==
    [t \in {"f1_respondent_id", "f1_fuel", "f1_steam"} |->
        CASE t = "f1_respondent_id" ->
                 StaleTableDef(CatalogFields(RegistryTable), TRUE)
          [] t = "f1_fuel" -> StaleTableDef(CatalogFields("f1_fuel"), FALSE)
          [] OTHER -> StaleTableDef(<<"respondent_id", "report_year">>, FALSE)]

(***************************************************************************)
(* Reading the DBC catalog: get_strings, lines 125-156.                    *)
(***************************************************************************)
\* The bytes of the file: two printable characters, a control character,
\* and a byte that no UTF-8 text holds.
DbcByte == {"a", "b", "NUL", "xFF"}
Printable == {"a", "b"}

\* The encodings open() may take from the locale (line 146 names none).
Encodings == {"utf-8", "latin-1"}

\* The most bytes of a DBC file, and the min_length arguments.
MaxBufLen == 4
MinLengths == {1, 2}

\* f.read() of a file opened with errors="ignore", line 146-148: the bytes
\* the encoding cannot decode are dropped; latin-1 decodes every byte.
ReadText(bytes, enc) ==
    IF enc = "utf-8" THEN SelectSeq(bytes, LAMBDA b : b # "xFF") ELSE bytes

RECURSIVE ScanStrings(_, _, _)
\* The loop of lines 147-156 over the remaining characters, result being
\* the run gathered so far.
ScanStrings(chars, result, min) ==
    IF chars = <<>>
    THEN IF Len(result) >= min THEN <<result>> ELSE <<>>
    ELSE IF Head(chars) \in Printable
    THEN ScanStrings(Tail(chars), Append(result, Head(chars)), min)
    ELSE (IF Len(result) >= min THEN <<result>> ELSE <<>>)
         \o ScanStrings(Tail(chars), <<>>, min)

\* get_strings(filename, min_length), lines 125-156.
get_strings(bytes, enc, min) == ScanStrings(ReadText(bytes, enc), <<>>, min)

CatalogIdle ==
    /\ dbc_bytes = <<>>
    /\ min_length = 1
    /\ encoding = "utf-8"
    /\ dbc_strings = <<>>
    /\ tf_dict = <<>>
    /\ dbc_pc = "idle"

(***************************************************************************)
(* Reconstructing the catalog: get_dbc_map, lines 195-229.  A string is a  *)
(* sequence of symbols: the texts "Table" and "Field", the space, and      *)
(* letters that are part of neither text.                                  *)
(***************************************************************************)
RECURSIVE StripLeft(_)
StripLeft(s) ==
    IF s # <<>> /\ Head(s) = " " THEN StripLeft(Tail(s)) ELSE s

RECURSIVE StripRight(_)
StripRight(s) ==
    IF s # <<>> /\ s[Len(s)] = " "
    THEN StripRight(SubSeq(s, 1, Len(s) - 1)) ELSE s

\* str.strip(), lines 196 and 221.
StripSpaces(s) == StripRight(StripLeft(s))

RECURSIVE CollapseSpaces(_)
\* re.sub(r'\s+', ' ', s), line 202.
CollapseSpaces(s) ==
    IF Len(s) < 2 THEN s
    ELSE IF s[1] = " " /\ s[2] = " " THEN CollapseSpaces(Tail(s))
    ELSE <<Head(s)>> \o CollapseSpaces(Tail(s))

RECURSIVE SplitWords(_, _)
\* str.split(), lines 209 and 228: the words between runs of spaces; word
\* is the one gathered so far.
SplitWords(s, word) ==
    IF s = <<>> THEN (IF word = <<>> THEN <<>> ELSE <<word>>)
    ELSE IF Head(s) = " "
    THEN (IF word = <<>> THEN <<>> ELSE <<word>>) \o SplitWords(Tail(s), <<>>)
    ELSE SplitWords(Tail(s), Append(word, Head(s)))

RECURSIVE JoinSpace(_)
\* ' '.join(strings), lines 209 and 217.
JoinSpace(strings) ==
    IF strings = <<>> THEN <<>>
    ELSE IF Len(strings) = 1 THEN strings[1]
    ELSE strings[1] \o <<" ">> \o JoinSpace(Tail(strings))

\* re.match('(^Table|^Field)', s), line 205: the string starts with one of
\* the two texts.
StartsWithKeyword(s) == s # <<>> /\ Head(s) \in {"Table", "Field"}

\* ' '.join(s.split()[:2]), line 209.
FirstTwoWords(s) ==
    JoinSpace(SubSeq(SplitWords(s, <<>>), 1,
                     Min(2, Len(SplitWords(s, <<>>)))))

RECURSIVE RemoveFieldKeyword(_)
\* re.sub('Field ', '', s), line 212: every 'Field ' of the string goes.
RemoveFieldKeyword(s) ==
    IF s = <<>> THEN <<>>
    ELSE IF Len(s) >= 2 /\ s[1] = "Field" /\ s[2] = " "
    THEN RemoveFieldKeyword(SubSeq(s, 3, Len(s)))
    ELSE <<Head(s)>> \o RemoveFieldKeyword(Tail(s))

RECURSIVE SplitOnTable(_, _)
\* str.split('Table '), line 217: the pieces between the occurrences of
\* the text, the empty ones included; piece is the one gathered so far.
SplitOnTable(s, piece) ==
    IF s = <<>> THEN <<piece>>
    ELSE IF Len(s) >= 2 /\ s[1] = "Table" /\ s[2] = " "
    THEN <<piece>> \o SplitOnTable(SubSeq(s, 3, Len(s)), <<>>)
    ELSE SplitOnTable(Tail(s), Append(piece, Head(s)))

MapSeq(Op(_), seq) == [i \in 1..Len(seq) |-> Op(seq[i])]

RECURSIVE BuildTfDict(_, _)
\* The loop of lines 226-229: a later entry of a table name takes the
\* place of an earlier one; [0] of an empty list raises IndexError.
BuildTfDict(table_strings, acc) ==
    IF table_strings = <<>> THEN Value(acc)
    ELSE LET table_and_fields == SplitWords(Head(table_strings), <<>>)
         IN  IF table_and_fields = <<>> THEN Raised("IndexError")
             ELSE BuildTfDict(Tail(table_strings),
                              (table_and_fields[1] :> Tail(table_and_fields))
                                  @@ acc)

\* Lines 195-229 of get_dbc_map, from the strings of the DBC file to
\* tf_dict.
ReconstructCatalog(strings) ==
    LET stripped == MapSeq(StripSpaces, strings)
        nonempty == SelectSeq(stripped, LAMBDA x : x # <<>>)
        collapsed == MapSeq(CollapseSpaces, nonempty)
        keyworded == SelectSeq(collapsed, StartsWithKeyword)
        twowords == MapSeq(FirstTwoWords, keyworded)
        unfielded == MapSeq(RemoveFieldKeyword, twowords)
        dbc_table_strings == SplitOnTable(JoinSpace(unfielded), <<>>)
    IN  BuildTfDict(MapSeq(StripSpaces,
                           SelectSeq(dbc_table_strings,
                                     LAMBDA x : x # <<>>)),
                    <<>>)

\* The strings of a DBC file: table and field entries, with names that
\* hold the texts Table and Field, a word that starts with Table, spaces
\* to strip and a trailing junk word, and a string of neither kind.
CatalogStrings ==
    {<<"Table", " ", "t">>,
     <<"Table", " ", "u">>,
     <<"Table", " ", "t", "Table">>,
     <<"Field", " ", "f">>,
     <<"Field", " ", "g">>,
     <<"Field", " ", "f", "Table">>,
     <<"Field", " ", "Field", "g">>,
     <<"Table", "s", " ", "t">>,
     <<" ", "Field", " ", " ", "g", " ", "x">>,
     <<"x", " ", "f">>}

\* The most strings of a DBC file.
MaxStrings == 3

NoResult == [kind |-> "unset", num |-> 0, scale |-> 0]

ParseNIdle ==
    /\ pn_data = <<>>
    /\ pn_residual = <<>>
    /\ pn_result = NoResult
    /\ pn_pc = "idle"

(***************************************************************************)
(* SpecParseN: one numeric field, decoded.                                 *)
(***************************************************************************)
InitParseN ==
    /\ pn_data \in SeqsUpTo(Byte, MaxFieldLen)
    /\ pn_residual = <<>>
    /\ pn_result = NoResult
    /\ pn_pc = "input"
    /\ store = <<>>
    /\ ferc1_pudl_tables = ferc1_extract_functions
    /\ ExtractIdle
    /\ LoadIdle
    /\ CatalogIdle

\* One call of FERC1FieldParser.parseN(field, data).
ParseNCall ==
    /\ pn_pc = "input"
    /\ pn_residual' = FercResidual(pn_data)
    /\ pn_result' = parseN(pn_data)
    /\ pn_pc' = "done"
    /\ UNCHANGED <<pn_data, store, ferc1_pudl_tables, exVars, ldVars,
                   dbcVars>>

NextParseN == ParseNCall

SpecParseN == InitParseN /\ [][NextParseN]_vars

(***************************************************************************)
(* SpecExtract: calls of extract with every request, valid or not,         *)
(* against a store that is uninitialised, empty, or holds one table.       *)
(***************************************************************************)
GoodFuelRow ==
    [respondent_id |-> <<1>>, report_year |-> <<2007>>, fuel |-> "coal",
     fuel_quantity |-> <<5>>, plant_name |-> "Plant A"]

\* The tables the requests of SpecExtract name.
ValidationTables ==
    {"fuel_ferc1", "plants_steam_ferc1", UnregisteredTable, UnknownTable}

InitExtract ==
    /\ store \in {<<>>, EmptyTables, [t \in {"f1_fuel"} |-> <<GoodFuelRow>>]}
    /\ ferc1_pudl_tables \in
           {ferc1_extract_functions,
            ferc1_extract_functions \cup {UnregisteredTable}}
    /\ ExtractIdle
    /\ ParseNIdle
    /\ CatalogIdle
    /\ LoadIdle

NextExtract ==
    \E ferc1_tables \in Requests(ValidationTables, MaxReq),
       ferc1_years \in Requests(RequestYears, MaxReq) :
        Extract(ferc1_tables, ferc1_years)

SpecExtract == InitExtract /\ [][NextExtract]_vars

(***************************************************************************)
(* SpecQuery: calls of extract for one supported table and working years,  *)
(* against every content of that table.                                    *)
(***************************************************************************)
InitQuery ==
    /\ \E t \in Ferc1Tables :
           \E rows \in SeqsUpTo(RowsOf(t), MaxStoreRows) :
               store = [EmptyTables EXCEPT ![t] = rows]
    /\ ferc1_pudl_tables = ferc1_extract_functions
    /\ ExtractIdle
    /\ ParseNIdle
    /\ CatalogIdle
    /\ LoadIdle

NextQuery ==
    \E pudl_table \in ferc1_extract_functions,
       ferc1_years \in Requests(WorkingYears, MaxReq) \ {<<>>} :
        Extract(<<pudl_table>>, ferc1_years)

SpecQuery == InitQuery /\ [][NextQuery]_vars

(***************************************************************************)
(* Spec: runs of dbf2sqlite over a datastore, from a store that is new or *)
(* left by an earlier clone; a finished run may be repeated.               *)
(***************************************************************************)
Init ==
    /\ archive \in Archives
    /\ \/ store = <<>> /\ schema = <<>>
       \/ store = StaleStore /\ schema = StaleSchema
    /\ ld_pc = "idle"
    /\ ld_tables = <<>>
    /\ ld_years = <<>>
    /\ ld_i = 0
    /\ ld_exc = "none"
    /\ dbc_map = <<>>
    /\ sqlite_meta = <<>>
    /\ bad_cols = NoBadCols
    /\ ld_runs = 0
    /\ ferc1_pudl_tables = ferc1_extract_functions
    /\ ExtractIdle
    /\ ParseNIdle
    /\ CatalogIdle

Fixed == <<archive, ferc1_pudl_tables, pnVars, exVars, dbcVars>>

\* dbf2sqlite is called (lines 377-407): the first run takes any tables
\* and years, a later one repeats the call.
Start(tables, years, bad) ==
    /\ ld_pc \in {"idle", "done", "raised"}
    /\ ld_runs < MaxRuns
    /\ ld_pc # "idle" =>
           tables = ld_tables /\ years = ld_years /\ bad = bad_cols
    /\ bad_cols' = bad
    /\ ld_tables' = tables
    /\ ld_years' = years
    /\ ld_pc' = "drop"
    /\ ld_i' = 1
    /\ ld_exc' = "none"
    /\ dbc_map' = <<>>
    /\ sqlite_meta' = <<>>
    /\ ld_runs' = ld_runs + 1
    /\ UNCHANGED <<store, schema, Fixed>>

\* Lines 408-417: the old DB is dropped (an OperationalError is passed
\* over) and a new MetaData object is made.
DropTables ==
    /\ ld_pc = "drop"
    /\ store' = drop_tables(store)
    /\ schema' = drop_tables(schema)
    /\ ld_pc' = "dbc_map"
    /\ UNCHANGED <<ld_tables, ld_years, ld_i, ld_exc, dbc_map, sqlite_meta,
                   bad_cols, ld_runs, Fixed>>

\* Line 421.
GetDbcMap ==
    /\ ld_pc = "dbc_map"
    /\ LET r == get_dbc_map(archive, refyear)
       IN  /\ dbc_map' = r.val
           /\ ld_exc' = r.exc
           /\ ld_pc' = IF r.exc = "none" THEN "define" ELSE "raised"
    /\ UNCHANGED <<store, schema, ld_tables, ld_years, ld_i, sqlite_meta,
                   bad_cols, ld_runs, Fixed>>

\* Lines 422-424: define_sqlite_db, lines 249-286.
DefineSqliteDb ==
    /\ ld_pc = "define"
    /\ LET r == DefineLoop(ld_tables, dbc_map, archive, refyear, bad_cols,
                           <<>>)
       IN  /\ sqlite_meta' = r.val
           /\ ld_exc' = r.exc
           /\ ld_pc' = IF r.exc = "none" THEN "load" ELSE "raised"
           /\ store' = IF r.exc = "none" THEN create_all(store, r.val)
                       ELSE store
           /\ schema' = IF r.exc = "none" THEN schema @@ r.val ELSE schema
    /\ UNCHANGED <<ld_tables, ld_years, ld_i, dbc_map, bad_cols, ld_runs,
                   Fixed>>

\* One pass of the loop of lines 426-450.
LoadNextTable ==
    /\ ld_pc = "load"
    /\ ld_i <= Len(ld_tables)
    /\ LET r == LoadTable(store, schema, dbc_map, archive, ld_tables[ld_i],
                          ld_years)
       IN  /\ store' = IF r.exc = "none" THEN r.val ELSE store
           /\ ld_exc' = r.exc
           /\ ld_pc' = IF r.exc = "none" THEN "load" ELSE "raised"
    /\ ld_i' = ld_i + 1
    /\ UNCHANGED <<schema, ld_tables, ld_years, dbc_map, sqlite_meta,
                   bad_cols, ld_runs, Fixed>>

\* The loop is over: dbf2sqlite returns.
Return ==
    /\ ld_pc = "load"
    /\ ld_i > Len(ld_tables)
    /\ ld_pc' = "done"
    /\ UNCHANGED <<store, schema, ld_tables, ld_years, ld_i, ld_exc, dbc_map,
                   sqlite_meta, bad_cols, ld_runs, Fixed>>

Next ==
    \/ \E tables \in Requests(Items(ferc1_tbl2dbf), MaxReq),
          years \in Requests(ArchiveYears, MaxReq) :
              Start(tables, years, NoBadCols)
    \/ DropTables
    \/ GetDbcMap
    \/ DefineSqliteDb
    \/ LoadNextTable
    \/ Return

Spec == Init /\ [][Next]_vars

(***************************************************************************)
(* SpecBadCols: runs of dbf2sqlite with a bad_cols denylist, over the      *)
(* datastore in which every file and the catalog are sound.                *)
(***************************************************************************)
InitBadCols ==
    /\ archive = Archive(BaseRegistry, BaseFuel, GoodCatalog)
    /\ store = <<>>
    /\ schema = <<>>
    /\ ld_pc = "idle"
    /\ ld_tables = <<>>
    /\ ld_years = <<>>
    /\ ld_i = 0
    /\ ld_exc = "none"
    /\ dbc_map = <<>>
    /\ sqlite_meta = <<>>
    /\ bad_cols = NoBadCols
    /\ ld_runs = 0
    /\ ferc1_pudl_tables = ferc1_extract_functions
    /\ ExtractIdle
    /\ ParseNIdle
    /\ CatalogIdle

NextBadCols ==
    \/ \E tables \in Requests(Items(ferc1_tbl2dbf), MaxReq),
          years \in Requests(ArchiveYears, MaxReq),
          bad \in BadColsChoices : Start(tables, years, bad)
    \/ DropTables
    \/ GetDbcMap
    \/ DefineSqliteDb
    \/ LoadNextTable
    \/ Return

SpecBadCols == InitBadCols /\ [][NextBadCols]_vars

(***************************************************************************)
(* SpecStrings: get_strings applied to the bytes of a file.                *)
(***************************************************************************)
InitStrings ==
    /\ dbc_bytes \in SeqsUpTo(DbcByte, MaxBufLen)
    /\ min_length \in MinLengths
    /\ encoding \in Encodings
    /\ dbc_strings = <<>>
    /\ tf_dict = <<>>
    /\ dbc_pc = "input"
    /\ store = <<>>
    /\ ferc1_pudl_tables = ferc1_extract_functions
    /\ ExtractIdle
    /\ ParseNIdle
    /\ LoadIdle

\* list(get_strings(...)), lines 191-193.
GetStrings ==
    /\ dbc_pc = "input"
    /\ dbc_strings' = get_strings(dbc_bytes, encoding, min_length)
    /\ dbc_pc' = "done"
    /\ UNCHANGED <<dbc_bytes, min_length, encoding, tf_dict, store,
                   ferc1_pudl_tables, pnVars, exVars, ldVars>>

NextStrings == GetStrings

SpecStrings == InitStrings /\ [][NextStrings]_vars

(***************************************************************************)
(* SpecCatalog: the reconstruction of tf_dict from the strings of a DBC    *)
(* file.                                                                   *)
(***************************************************************************)
InitCatalog ==
    /\ dbc_strings \in SeqsUpTo(CatalogStrings, MaxStrings)
    /\ dbc_bytes = <<>>
    /\ min_length = 1
    /\ encoding = "utf-8"
    /\ tf_dict = <<>>
    /\ dbc_pc = "input"
    /\ store = <<>>
    /\ ferc1_pudl_tables = ferc1_extract_functions
    /\ ExtractIdle
    /\ ParseNIdle
    /\ LoadIdle

\* Lines 195-229: tf_dict is built, or the IndexError leaves get_dbc_map.
Reconstruct ==
    /\ dbc_pc = "input"
    /\ tf_dict' = ReconstructCatalog(dbc_strings).val
    /\ dbc_pc' = IF ReconstructCatalog(dbc_strings).exc = "none"
                 THEN "done" ELSE "raised"
    /\ UNCHANGED <<dbc_bytes, min_length, encoding, dbc_strings, store,
                   ferc1_pudl_tables, pnVars, exVars, ldVars>>

NextCatalog == Reconstruct

SpecCatalog == InitCatalog /\ [][NextCatalog]_vars

(***************************************************************************)
(* The claims.                                                             *)
(***************************************************************************)
ExtractCalled == ex_outcome # NotCalled
NonEmptyRequest == ex_tables # <<>> /\ ex_years # <<>>
YearsValid == Items(ex_years) \subseteq (DataYears \cap WorkingYears)

\* C1, as claimed: for non-empty tables and years, a requested year outside
\* the data years makes extract raise a ValueError whose message lists the
\* available years, before the store is connected to or read.
C1_UnavailableYearRaisesValueError ==
    (/\ ExtractCalled
     /\ NonEmptyRequest
     /\ \E y \in Items(ex_years) : y \notin DataYears)
    => /\ ex_outcome.exc = "ValueError"
       /\ ex_outcome.lists = "data_years"
       /\ ~ex_connected
       /\ ex_queries = <<>>

\* The tables of a request that come before its first table without an
\* extraction function.
RECURSIVE BeforeFirstUnregistered(_)
BeforeFirstUnregistered(tables) ==
    IF tables = <<>> \/ Head(tables) \notin ferc1_extract_functions
    THEN <<>>
    ELSE <<Head(tables)>> \o BeforeFirstUnregistered(Tail(tables))

\* C2, as claimed (for valid years and an initialised store): a requested
\* table that is unsupported or has no extraction function makes extract
\* raise with no extraction query executed for any requested table.
C2_NoQueryBeforeAnyTableError ==
    (/\ ExtractCalled
     /\ NonEmptyRequest
     /\ YearsValid
     /\ DOMAIN store # {}
     /\ \E t \in Items(ex_tables) :
            t \notin ferc1_pudl_tables \/ t \notin ferc1_extract_functions)
    => /\ ex_outcome.exc = "ValueError"
       /\ ex_queries = <<>>

\* C2, amended: a requested table outside pc.ferc1_pudl_tables makes
\* extract raise before it connects to the store or runs any query (the
\* ValueError listing the supported tables when the years are valid); a
\* supported table without an extraction function raises only when the
\* extraction loop reaches it, after the queries of the tables before it.
C2_UnsupportedTableRaisesBeforeQuery ==
    /\ (/\ ExtractCalled
        /\ NonEmptyRequest
        /\ \E t \in Items(ex_tables) : t \notin ferc1_pudl_tables)
       => /\ ex_outcome.exc \notin {"ok", "none"}
          /\ ~ex_connected
          /\ ex_queries = <<>>
          /\ YearsValid =>
                 ex_outcome =
                     Outcome("ValueError", "table_unsupported", "pudl_tables")
    /\ (/\ ExtractCalled
        /\ ex_outcome.at = "no_extract_function")
       => /\ ex_outcome.exc = "ValueError"
          /\ ex_queries = BeforeFirstUnregistered(ex_tables)

\* C2's case: an unsupported table requested after a supported one whose
\* table the store holds, rejected by the check of lines 508-518.
C2_Witness ==
    /\ ex_outcome.at = "table_unsupported"
    /\ Len(ex_tables) = 2
    /\ ex_tables[1] = "fuel_ferc1"
    /\ "f1_fuel" \in DOMAIN store
    /\ ex_queries = <<>>

\* C3: when ferc1_tables or ferc1_years is empty, extract returns an empty
\* mapping without raising, without validating the other argument and
\* without touching the store.
C3_EmptyRequestReturnsEmpty ==
    (ExtractCalled /\ (ex_tables = <<>> \/ ex_years = <<>>))
    => /\ ex_outcome = Returned
       /\ ex_ret = <<>>
       /\ ~ex_connected
       /\ ex_queries = <<>>

\* C3's case: an empty years argument with an unknown table and an
\* uninitialised store, returned from without error.
C3_Witness ==
    /\ ExtractCalled
    /\ ex_years = <<>>
    /\ UnknownTable \in Items(ex_tables)
    /\ DOMAIN store = {}
    /\ ex_outcome = Returned

\* What C4 asks of a fuel row: non-empty fuel text, a fuel quantity above
\* 0, a non-empty plant name, a report year among the requested ones and a
\* respondent id that is not one of the known-bad ones.
C4_Wanted(r) ==
    /\ r.fuel # ""
    /\ r.fuel_quantity # NULL
    /\ r.fuel_quantity[1] > 0
    /\ r.plant_name # ""
    /\ r.report_year # NULL
    /\ \E i \in 1..Len(ex_years) : ex_years[i] = r.report_year[1]
    /\ r.respondent_id # NULL
    /\ ~(r.respondent_id[1] \in missing_respondents_ferc1)

\* C4: the fuel extraction returns exactly the stored fuel rows that pass
\* C4_Wanted, each as often as it is stored and in stored order.
C4_FuelReturnsExactlyWantedRows ==
    (ExtractCalled /\ ex_tables = <<"fuel_ferc1">>)
    => /\ ex_outcome = Returned
       /\ DOMAIN ex_ret = {"fuel_ferc1"}
       /\ ex_ret["fuel_ferc1"] = SelectSeq(store["f1_fuel"], C4_Wanted)

\* C4's case: a stored fuel row that the extraction returns.
C4_Witness ==
    /\ ExtractCalled
    /\ ex_tables = <<"fuel_ferc1">>
    /\ Len(store["f1_fuel"]) > 0
    /\ ex_ret["fuel_ferc1"] = store["f1_fuel"]

\* C5: every row extract returns, for any table, has a report year among
\* the requested ones and a respondent id outside the known-bad ones.
C5_ReturnedRowsInYearsAndNotMissing ==
    ExtractCalled =>
        \A t \in DOMAIN ex_ret : \A i \in 1..Len(ex_ret[t]) :
            /\ ex_ret[t][i].report_year # NULL
            /\ ex_ret[t][i].report_year[1] \in Items(ex_years)
            /\ ex_ret[t][i].respondent_id # NULL
            /\ ex_ret[t][i].respondent_id[1] \notin missing_respondents_ferc1

\* C5's case: a table without a quality predicate of its own returns a
\* row of the one requested year.
C5_Witness ==
    /\ ExtractCalled
    /\ ex_tables = <<"accumulated_depreciation_ferc1">>
    /\ Len(ex_years) = 1
    /\ Len(ex_ret["accumulated_depreciation_ferc1"]) > 0

HoldsDigit(data) == \E i \in 1..Len(data) : data[i] \in Digit

\* C6, as claimed (for a field that holds a digit): the residual parseN
\* hands to the generic decoder is never empty, and a field that the
\* stripping empties decodes to the number 0.
C6_ResidualNeverEmpty ==
    (pn_pc = "done" /\ HoldsDigit(pn_data))
    => /\ pn_residual # <<>>
       /\ strip(strip(strip(pn_data, Whitespace), {"*", "NUL"}), {"0"}) = <<>>
              => /\ pn_result.kind \in {"int", "float"}
                 /\ pn_result.num = 0

\* A well-formed number: digits with at most one decimal point, at least
\* one digit, padded with whitespace or not.
WellFormedNumber(data) ==
    LET s == strip(data, Whitespace)
    IN  /\ \A i \in 1..Len(s) : s[i] \in Digit \cup {"."}
        /\ \E i \in 1..Len(s) : s[i] \in Digit
        /\ Cardinality({i \in 1..Len(s) : s[i] = "."}) <= 1

\* Two decoded values are the same number.
SameNumber(a, b) ==
    /\ a.kind \in {"int", "float"}
    /\ b.kind \in {"int", "float"}
    /\ a.num * Pow10(b.scale) = b.num * Pow10(a.scale)

\* C7, as claimed (for a number that holds a non-zero digit): on a
\* well-formed number parseN decodes to the value the generic decoder
\* gives for the same bytes.
C7_WellFormedValueUnchanged ==
    (/\ pn_pc = "done"
     /\ WellFormedNumber(pn_data)
     /\ \E i \in 1..Len(pn_data) : pn_data[i] = "1")
    => SameNumber(pn_result, GenericParseN(pn_data))

(***************************************************************************)
(* Claims about dbf2sqlite (Spec).                                         *)
(***************************************************************************)
\* The requested years whose registry file holds a record of the
\* respondent id.
YearsHolding(id) ==
    {y \in Items(ld_years) :
        /\ archive.dbf[RegistryTable][y].exists
        /\ \E i \in 1..Len(archive.dbf[RegistryTable][y].rows) :
               archive.dbf[RegistryTable][y].rows[i]["RESPONDENT"] = id}

\* The registry records of a year that hold the id, as the store holds them.
RegistryRowsOf(id, y) ==
    {[respondent_id |-> r["RESPONDENT"], respondent_name |-> r["RESPONDEN2"]] :
        r \in {q \in Items(archive.dbf[RegistryTable][y].rows) :
                  q["RESPONDENT"] = id}}

MostRecent(years) == CHOOSE y \in years : \A z \in years : z <= y

\* A run that cloned the registry has returned.
RegistryCloned ==
    /\ ld_pc = "done"
    /\ RegistryTable \in Items(ld_tables)

\* C8: after dbf2sqlite, every respondent id found in the registry files
\* of more than one requested year has exactly one row in f1_respondent_id,
\* and that row is the one of the most recent of those years.
C8_RegistryKeepsMostRecentYear ==
    RegistryCloned =>
        \A id \in {<<1>>, <<2>>} :
            Cardinality(YearsHolding(id)) > 1 =>
                /\ Cardinality({i \in 1..Len(store[RegistryTable]) :
                       store[RegistryTable][i].respondent_id = id}) = 1
                /\ \A i \in 1..Len(store[RegistryTable]) :
                       store[RegistryTable][i].respondent_id = id =>
                           store[RegistryTable][i] \in
                               RegistryRowsOf(id, MostRecent(YearsHolding(id)))

RECURSIVE LoadAll(_, _, _, _, _, _)
\* The loop of lines 426-450 run to its end or to its first exception.
LoadAll(db, dbschema, map, arch, tables, years) ==
    IF tables = <<>> THEN db
    ELSE LET r == LoadTable(db, dbschema, map, arch, Head(tables), years)
         IN  IF r.exc # "none" THEN db
             ELSE LoadAll(r.val, dbschema, map, arch, Tail(tables), years)

\* The store that dbf2sqlite leaves when the store it starts on is empty.
CloneOfEmptyStore(arch, tables, years) ==
    LET m == get_dbc_map(arch, refyear)
        d == DefineLoop(tables, m.val, arch, refyear, bad_cols, <<>>)
    IN  IF m.exc # "none" \/ d.exc # "none" THEN <<>>
        ELSE LoadAll(create_all(<<>>, d.val), d.val, m.val, arch, tables,
                     years)

CountMismatches ==
    {t \in Items(ferc1_tbl2dbf) :
        /\ archive.dbf[t][refyear].exists
        /\ t \in DOMAIN archive.tf_dict
        /\ Len(archive.tf_dict[t]) #
               Len(WithoutNullFlags(archive.dbf[t][refyear].fields))}

\* get_dbc_map has been called in this run, and has raised.
DbcMapCalled == ld_pc \in {"define", "load", "done", "raised"}
DbcMapRaised == ld_pc = "raised" /\ ld_exc \in {"AssertionError", "KeyError"}

\* C10: when the catalog and the reference-year file of a known table
\* disagree on the number of fields, get_dbc_map raises and no map is
\* returned; in every map it returns the two numbers agree for each table.
C10_FieldCountMismatchRaises ==
    DbcMapCalled =>
        /\ CountMismatches # {} => DbcMapRaised /\ dbc_map = <<>>
        /\ ~DbcMapRaised =>
               \A t \in DOMAIN dbc_map :
                   /\ Len(archive.tf_dict[t]) =
                          Len(WithoutNullFlags(archive.dbf[t][refyear].fields))
                   /\ Cardinality(DOMAIN dbc_map[t]) = Len(archive.tf_dict[t])

\* The catalog holds one name more than f1_fuel has fields, and the call
\* has raised the assertion.
C10_Witness ==
    /\ CountMismatches = {"f1_fuel"}
    /\ Len(archive.tf_dict["f1_fuel"]) >
           Len(WithoutNullFlags(archive.dbf["f1_fuel"][refyear].fields))
    /\ ld_pc = "raised"
    /\ ld_exc = "AssertionError"
    /\ dbc_map = <<>>

\* The (truncated name, true name) pairs that get_dbc_map builds from the
\* reference-year files and the catalog.
ArchivePairs ==
    UNION {{<<sn, ZipDict(WithoutNullFlags(archive.dbf[t][refyear].fields),
                          archive.tf_dict[t])[sn]>> :
               sn \in DOMAIN ZipDict(
                         WithoutNullFlags(archive.dbf[t][refyear].fields),
                         archive.tf_dict[t])} :
           t \in {u \in Items(ferc1_tbl2dbf) :
                     /\ archive.dbf[u][refyear].exists
                     /\ u \in DOMAIN archive.tf_dict}}

\* Both names lower-cased are equal on their first 8 characters.
LowerPrefixesEqual(sn, ln) == First8(Lower(sn)) = First8(Lower(ln))

\* C11: in every map get_dbc_map returns, the truncated name and the true
\* name of each pair, both lower-cased, agree on their first 8 characters;
\* when a pair does not, get_dbc_map raises instead of returning.
C11_MapPairsAgreeOnPrefix ==
    DbcMapCalled =>
        /\ (\E p \in ArchivePairs : ~LowerPrefixesEqual(p[1], p[2]))
               => DbcMapRaised /\ dbc_map = <<>>
        /\ ~DbcMapRaised =>
               \A t \in DOMAIN dbc_map : \A sn \in DOMAIN dbc_map[t] :
                   LowerPrefixesEqual(sn, dbc_map[t][sn])

\* The catalog names the fields of f1_fuel in another order than the file,
\* the numbers of fields agree, and the call has raised the assertion.
C11_Witness ==
    /\ CountMismatches = {}
    /\ \E p \in ArchivePairs : ~LowerPrefixesEqual(p[1], p[2])
    /\ ld_pc = "raised"
    /\ ld_exc = "AssertionError"
    /\ dbc_map = <<>>

\* The requested years yield no record for the table.
ZeroRecords(t) == Len(ConcatYears(t, archive, ld_years)) = 0

\* The tables of the call that the load loop has dealt with, the one whose
\* load raised included.
TablesLoaded ==
    IF ld_pc \in {"load", "done"} \/ (ld_pc = "raised" /\ ld_i > 1)
    THEN {ld_tables[k] : k \in 1..(ld_i - 1)}
    ELSE {}

\* The load of a table has raised.
LoadRaised == ld_pc = "raised" /\ ld_i > 1

\* C12: a table for which the requested years yield zero records (no year
\* requested, no file for any requested year, or files without records) is
\* loaded as a no-op: nothing is written for it, no error is raised, and
\* the run goes on with the next table.
C12_ZeroRecordsIsNoOp ==
    /\ LoadRaised => ~ZeroRecords(ld_tables[ld_i - 1])
    /\ \A t \in TablesLoaded :
           ZeroRecords(t) /\ t \in DOMAIN store => store[t] = <<>>

\* The requested years that have a file of the table, in request order,
\* and the records of those files one after the other.
YearsWithFile(t) ==
    SelectSeq(ld_years, LAMBDA y : archive.dbf[t][y].exists)

RECURSIVE RecordsOfYears(_, _)
RecordsOfYears(t, years) ==
    IF years = <<>> THEN <<>>
    ELSE archive.dbf[t][Head(years)].rows \o RecordsOfYears(t, Tail(years))

\* A record of the fuel file as the store holds it.
StoredFuelRow(r) ==
    [respondent_id |-> r["RESPONDENT"], report_year |-> r["REPORT_YEA"],
     fuel |-> r["FUEL"], fuel_quantity |-> r["FUEL_QUANT"],
     plant_name |-> r["PLANT_NAME"]]

\* A requested year has no file of the table.
SomeYearMissing(t) ==
    \E i \in 1..Len(ld_years) : ~archive.dbf[t][ld_years[i]].exists

\* C13: a requested year without a data file of the table is skipped
\* without error, and the batch of the table is exactly the records of the
\* requested years that have a file, in request order.
C13_MissingYearSkipped ==
    \A t \in TablesLoaded :
        SomeYearMissing(t) =>
            /\ ~(LoadRaised /\ t = ld_tables[ld_i - 1])
            /\ t # RegistryTable =>
                   store[t] =
                       [i \in 1..Len(RecordsOfYears(t, YearsWithFile(t))) |->
                           StoredFuelRow(
                               RecordsOfYears(t, YearsWithFile(t))[i])]

\* The schema that the reference-year files and the catalog define for the
\* tables of the call.
SchemaOfRefyear ==
    [t \in Items(ld_tables) |->
        add_sqlite_table(t, get_dbc_map(archive, refyear).val, archive,
                         refyear, bad_cols)]

\* define_sqlite_db has returned in this run.
SchemaDefined == ld_pc \in {"load", "done"} \/ LoadRaised

\* C14: the schema define_sqlite_db creates is the one of the reference
\* year, whatever years are loaded, and loading leaves it as it is; the
\* load of zero years and the load of all years both complete.
C14_SchemaLoadInvariant ==
    SchemaDefined =>
        /\ schema = SchemaOfRefyear
        /\ sqlite_meta = SchemaOfRefyear
        /\ (ld_years = <<>> \/ Items(ld_years) = ArchiveYears) => ~LoadRaised

(***************************************************************************)
(* More claims about dbf2sqlite (Spec).                                    *)
(***************************************************************************)
\* The respondent ids that the rows of a stored table hold.
IdsStored(t) == {store[t][i].respondent_id : i \in 1..Len(store[t])}

\* C16: once the registry is loaded, every respondent id stored in a table
\* that has the foreign key is an id of the registry; a row whose id is
\* not in the registry is not written.
C16_StoredIdsAreInRegistry ==
    RegistryTable \in TablesLoaded /\ RegistryTable \in DOMAIN store =>
        \A t \in DOMAIN store \cap DOMAIN schema :
            schema[t].foreign_key =>
                IdsStored(t) \subseteq IdsStored(RegistryTable)

(***************************************************************************)
(* Claims about the bad_cols denylist (SpecBadCols).                       *)
(***************************************************************************)
\* The columns the catalog names for the table, the denied ones left out.
ColumnsNotDenied(t) ==
    SelectSeq(archive.tf_dict[t], LAMBDA c : <<t, c>> \notin bad_cols)

C18_DeniedColumnOmitted ==
    \A p \in bad_cols :
        /\ p[1] \in DOMAIN schema => p[2] \notin Items(schema[p[1]].columns)
        /\ p[1] \in DOMAIN store =>
               \A i \in 1..Len(store[p[1]]) : p[2] \notin DOMAIN store[p[1]][i]
        /\ ~(/\ LoadRaised
             /\ ld_tables[ld_i - 1] = p[1]
             /\ YearsWithFile(p[1]) # <<>>)

(***************************************************************************)
(* Claims about get_strings (SpecStrings).                                 *)
(***************************************************************************)
\* The maximal runs of printable bytes of the buffer that start at byte i
\* or later, those shorter than min_length left out, in scan order.
RunEnd(i) ==
    CHOOSE j \in i..Len(dbc_bytes) :
        /\ \A k \in i..j : dbc_bytes[k] \in Printable
        /\ j = Len(dbc_bytes) \/ dbc_bytes[j + 1] \notin Printable

RECURSIVE MaximalRunsFrom(_)
MaximalRunsFrom(i) ==
    IF i > Len(dbc_bytes) THEN <<>>
    ELSE IF dbc_bytes[i] \notin Printable THEN MaximalRunsFrom(i + 1)
    ELSE (IF RunEnd(i) - i + 1 >= min_length
          THEN <<SubSeq(dbc_bytes, i, RunEnd(i))>> ELSE <<>>)
         \o MaximalRunsFrom(RunEnd(i) + 1)

\* C17: get_strings yields exactly the maximal runs of consecutive
\* printable characters of the buffer that are at least min_length long,
\* in scan order and each once, a run ending the buffer included.
C17_YieldsMaximalPrintableRuns ==
    dbc_pc = "done" => dbc_strings = MaximalRunsFrom(1)

(***************************************************************************)
(* Claims about the reconstruction of the catalog (SpecCatalog).           *)
(***************************************************************************)
\* The words of the strings whose first word is exactly Table or Field
\* and is followed by a name: <<keyword, name>>, in catalog order.
CatalogEntries ==
    LET words == [i \in 1..Len(dbc_strings) |->
                     SplitWords(dbc_strings[i], <<>>)]
        entries == SelectSeq(words,
                             LAMBDA w : /\ Len(w) >= 2
                                        /\ w[1] \in {<<"Table">>, <<"Field">>})
    IN  [i \in 1..Len(entries) |-> <<entries[i][1][1], entries[i][2]>>]

\* The catalog starts with a table, and names no table twice.
TablesThenFields ==
    /\ CatalogEntries # <<>>
    /\ CatalogEntries[1][1] = "Table"
    /\ \A i, j \in 1..Len(CatalogEntries) :
           /\ CatalogEntries[i][1] = "Table"
           /\ CatalogEntries[j][1] = "Table"
           /\ CatalogEntries[i][2] = CatalogEntries[j][2]
           => i = j

\* The field names that follow the table entry at position i, up to the
\* next table entry.
RECURSIVE FieldsAfter(_)
FieldsAfter(i) ==
    IF i >= Len(CatalogEntries) \/ CatalogEntries[i + 1][1] = "Table"
    THEN <<>>
    ELSE <<CatalogEntries[i + 1][2]>> \o FieldsAfter(i + 1)

\* One entry per table: its name -> its field names in catalog order.
TablesAndFields ==
    [name \in {CatalogEntries[i][2] :
                  i \in {k \in 1..Len(CatalogEntries) :
                            CatalogEntries[k][1] = "Table"}} |->
        FieldsAfter(CHOOSE i \in 1..Len(CatalogEntries) :
                        /\ CatalogEntries[i][1] = "Table"
                        /\ CatalogEntries[i][2] = name)]

\* C19: from strings of the form Table <name> followed by Field <name>
\* strings, other strings and trailing junk words among them, get_dbc_map
\* rebuilds one entry per table, the table name -> its field names in
\* catalog order; only the strings whose first word is exactly Table or
\* Field count, and names that hold the text Table or Field stay whole.
C19_CatalogRebuiltFromEntries ==
    dbc_pc \in {"done", "raised"} /\ TablesThenFields =>
        /\ dbc_pc = "done"
        /\ tf_dict = TablesAndFields

(***************************************************************************)
(* More claims about the extraction queries (SpecQuery).                   *)
(***************************************************************************)
\* The small-plant extraction has been called alone.
SmallExtracted == ExtractCalled /\ ex_tables = <<"plants_small_ferc1">>

\* The row is of a requested year, of a respondent outside the known-bad
\* ones, and has a plant name.
SmallKeyWanted(r) ==
    /\ r.report_year # NULL
    /\ r.report_year[1] \in Items(ex_years)
    /\ r.respondent_id # NULL
    /\ r.respondent_id[1] \notin missing_respondents_ferc1
    /\ r.plant_name # ""

\* One of the nine columns is not the value 0 (a NULL is not).
SomeAmountNotZero(r) ==
    SmallKeyWanted(r) /\ \E c \in SmallColumns : r[c] # <<0>>

\* One of the nine columns holds a value, and the value is not 0.
SomeAmountNonZeroValue(r) ==
    SmallKeyWanted(r) /\ \E c \in SmallColumns : r[c] # NULL /\ r[c][1] # 0

\* C20 as stated: the small-plant extraction returns exactly the rows, of
\* the requested years and outside the known-bad respondents, that have a
\* plant name and at least one of the nine columns different from 0; a
\* row is dropped only when all nine are 0.
C20_DroppedOnlyWhenAllNineZero ==
    SmallExtracted =>
        /\ ex_outcome = Returned
        /\ ex_ret["plants_small_ferc1"] =
               SelectSeq(store["f1_small"], SomeAmountNotZero)

\* C20, amended: the rows returned are exactly those with a plant name and
\* at least one of the nine columns holding a value different from 0; a
\* row whose nine columns are each 0 or NULL is dropped.
C20_ReturnedWhenSomeNonZeroValue ==
    SmallExtracted =>
        /\ ex_outcome = Returned
        /\ ex_ret["plants_small_ferc1"] =
               SelectSeq(store["f1_small"], SomeAmountNonZeroValue)

\* A stored small-plant row with a good key, a NULL in one of the nine
\* columns and 0 in the others, that the extraction has dropped.
C20_Witness ==
    /\ SmallExtracted
    /\ ex_outcome = Returned
    /\ Len(store["f1_small"]) = 1
    /\ SmallKeyWanted(store["f1_small"][1])
    /\ \E c \in SmallColumns : store["f1_small"][1][c] = NULL
    /\ ex_ret["plants_small_ferc1"] = <<>>

(***************************************************************************)
(* Claims about the order of the steps of dbf2sqlite (Spec).               *)
(***************************************************************************)
\* Some table of the store holds a row.
SomeRowStored == \E t \in DOMAIN store : store[t] # <<>>

\* The run is past define_sqlite_db: it loads, has returned, or a load has
\* raised.
Loading == ld_pc \in {"load", "done"} \/ LoadRaised

\* Before the loop of the loads no row is in the store, and from its start
\* on every table of the call is defined and created.
SynthesisBeforeLoad ==
    /\ ld_pc \in {"dbc_map", "define"} => ~SomeRowStored
    /\ ld_pc = "raised" /\ ~LoadRaised => ~SomeRowStored
    /\ Loading =>
           /\ Items(ld_tables) \subseteq DOMAIN dbc_map
           /\ DOMAIN sqlite_meta = Items(ld_tables)
           /\ DOMAIN schema = Items(ld_tables)
           /\ DOMAIN store = Items(ld_tables)

\* A step of the loop of the loads creates no table and alters none.
NoTableChangeWhileLoading ==
    ld_pc = "load" =>
        /\ schema' = schema
        /\ sqlite_meta' = sqlite_meta
        /\ DOMAIN store' = DOMAIN store

\* C21: in every run of dbf2sqlite the catalog is rebuilt and every target
\* table is defined and created empty before the first record of any
\* table is inserted, and no table is created or altered once loading has
\* begun.
C21_SchemaSynthesisPrecedesLoad ==
    [](SynthesisBeforeLoad) /\ [][NoTableChangeWhileLoading]_vars

\* The first of two tables is loaded, the second one, created before, is
\* still empty.
C21_Witness ==
    /\ ld_pc = "load"
    /\ Len(ld_tables) = 2
    /\ ld_i = 2
    /\ store[ld_tables[1]] # <<>>
    /\ store[ld_tables[2]] = <<>>
    /\ DOMAIN schema = Items(ld_tables)

====
